---- MODULE Spec2Model ----
(***************************************************************************)
(* Form prefill mapping: the dependency resolver (dagTraversal), the data  *)
(* source registry and the source categorizer (useDataSources).            *)
(*                                                                         *)
(* A JavaScript Set<string> is insertion ordered; it is modelled as a      *)
(* duplicate-free sequence.  A FormGraph object is modelled as the         *)
(* sequence of its Form records in key (insertion) order.  A string that   *)
(* the program formats or concatenates (names, labels, property names,     *)
(* paths) is the sequence of its characters; identifiers that are only     *)
(* compared are atoms.                                                     *)
(***************************************************************************)
EXTENDS Integers, Sequences, FiniteSets, TLC

VARIABLES formGraph, targetFormId, globalData, pc, bfs, dfs, result,
          registrySources, registered, fieldSource,
          mappings, localStorage, storePc, modal, loader

\* modal: a DataSourceModal, with its props isOpen and targetField, its state
\* showConfirmation and pendingMapping, and effectDue: isOpen changed in the
\* last render and the effect on [isOpen] has not run yet
vars == <<formGraph, targetFormId, globalData, pc, bfs, dfs, result,
          registrySources, registered, fieldSource,
          mappings, localStorage, storePc, modal, loader>>

\* loader: a useForms hook, with its state forms, formGraph, globalData,
\* loading and error, the calls of loadForms still waiting for their fetch
\* (inflight, numbered in the order the calls were made), and the history of
\* the calls: started, their number, outcome, how the fetch of each ended, and
\* overlapped, whether a call was ever made while another was waiting

\* usePrefillMappings: mappings is the state of the hook, localStorage the
\* item stored under STORAGE_KEY, storePc the position of the hook:
\* "unmounted", "effect" (a render committed a new mappings array and the
\* persist effect has not run yet) or "idle"
storeVars == <<mappings, localStorage, storePc>>

\* registrySources: the Map `sources` of a DataSourceRegistry instance;
\* registered: the sources passed to register since the registry was created
\* or last cleared, in call order; fieldSource: the data source whose
\* getFields is called
outsideResolver == <<registrySources, registered, fieldSource, storeVars, modal, loader>>

outsideRegistry ==
  <<formGraph, targetFormId, globalData, pc, bfs, dfs, fieldSource, storeVars, modal,
    loader>>

outsideFields ==
  <<formGraph, targetFormId, globalData, pc, bfs, dfs, registrySources, registered,
    storeVars, modal, loader>>

outsideStore ==
  <<formGraph, targetFormId, globalData, pc, bfs, dfs, registrySources, registered,
    fieldSource, modal, loader>>

outsideModal ==
  <<formGraph, targetFormId, globalData, pc, bfs, dfs, registrySources, registered,
    fieldSource, storeVars, loader>>

outsideLoader ==
  <<formGraph, targetFormId, globalData, pc, bfs, dfs, registrySources, registered,
    fieldSource, storeVars, modal>>

(***************************************************************************)
(* Bounds and input universes                                              *)
(***************************************************************************)
\* total number of dependency entries in the whole graph
MaxEdges == 3

\* number of register calls on one registry between two clears
MaxRegistered == 4

\* number of fields of the form behind a form source
MaxFields == 2

\* number of property names in a property group
MaxProps == 2

\* length of a generated property name
MaxPropLen == 3

FormIds == {"A", "B", "C"}

GlobalActionId == "global-action-properties"

GlobalOrgId == "global-org-properties"

\* identifiers a dependency list may name: forms of the universe (present in
\* the graph or not) and an identifier that is no form at all
DepIds == FormIds \cup {GlobalActionId}

Null == "null"

Undefined == "undefined"

\* a null GlobalData
NullData == [isNull |-> TRUE]

Range(s) == {s[i] : i \in 1..Len(s)}

FormName ==
  [A |-> <<"F", "o", "r", "m", " ", "A">>,
   B |-> <<"F", "o", "r", "m", " ", "B">>,
   C |-> <<"F", "o", "r", "m", " ", "C">>]

FormFields ==
  [A |-> <<[id |-> "email", label |-> <<"E", "m", "a", "i", "l">>, type |-> "email"]>>,
   B |-> <<[id |-> "name", label |-> <<"N", "a", "m", "e">>, type |-> "text"],
           [id |-> "dob", label |-> <<"B", "i", "r", "t", "h">>, type |-> "date"]>>,
   C |-> <<>>]

MkForm(id, deps) ==
  [id |-> id, name |-> FormName[id], fields |-> FormFields[id], dependencies |-> deps]

\* the graphs whose keys are, in order, the identifiers of the sequence ids
\* and whose dependency lists hold at most budget entries in total; the key
\* of a form is its id, as useForms builds the graph (graph[form.id] = form)
RECURSIVE GraphsFrom(_, _)
GraphsFrom(ids, budget) ==
  IF ids = <<>> THEN {<<>>}
  ELSE UNION {LET rests == GraphsFrom(Tail(ids), budget - k)
              IN {<<MkForm(Head(ids), d)>> \o rest : d \in [1..k -> DepIds], rest \in rests} :
              k \in 0..budget}

KeyOrders ==
  {o \in UNION {[1..k -> FormIds] : k \in 0..Cardinality(FormIds)} :
     \A i, j \in 1..Len(o) : i # j => o[i] # o[j]}

IdRank == [A |-> 1, B |-> 2, C |-> 3]

SortedKeyOrders ==
  {o \in KeyOrders : \A i, j \in 1..Len(o) : i < j => IdRank[o[i]] < IdRank[o[j]]}

\* g is a graph of the universe whose key order is one of orders
IsGraphOver(g, orders) == \E o \in orders : g \in GraphsFrom(o, MaxEdges)

EmptyGlobalData == [actionProperties |-> <<>>, clientOrgProperties |-> <<>>]

SomeGlobalData ==
  [actionProperties |-> <<<<"s", "t", "a", "t", "u", "s">>,
                          <<"c", "r", "e", "a", "t", "e", "d", "_", "a", "t">>>>,
   clientOrgProperties |-> <<<<"o", "r", "g", "_", "n", "a", "m", "e">>>>]

Snapshots == {NullData, EmptyGlobalData, SomeGlobalData}

\* the fields a form may list; two of them share their label
FieldPool ==
  {[id |-> "email", label |-> <<"E", "m", "a", "i", "l">>, type |-> "email"],
   [id |-> "email2", label |-> <<"E", "m", "a", "i", "l">>, type |-> "text"],
   [id |-> "dob", label |-> <<"B", "_", "d">>, type |-> "date"]}

FieldLists(n) == UNION {[1..k -> FieldPool] : k \in 0..n}

\* display names handed to the FormDataSource constructor
SourceNames == {FormName.A, <<"V", "2">>, <<>>}

CreatedAt == <<"c", "r", "e", "a", "t", "e", "d", "_", "a", "t">>

\* property names: every string over a letter and the underscore up to
\* MaxPropLen characters, and names with capitals, digits and long words
PropNames ==
  UNION {[1..k -> {"a", "_"}] : k \in 0..MaxPropLen}
  \cup {CreatedAt, <<"i", "D", "_", "2", "x">>}

PropLists(n) == UNION {[1..k -> PropNames] : k \in 0..n}

\* a form of the graph whose identifier is the one the organization source
\* registers itself under; nothing depends on it
ReservedIdForm ==
  [id |-> GlobalOrgId, name |-> <<"O", "r", "g">>, fields |-> <<>>,
   dependencies |-> <<>>]

(***************************************************************************)
(* Set<string> and FormGraph primitives                                    *)
(***************************************************************************)
SetAdd(s, x) == IF x \in Range(s) THEN s ELSE Append(s, x)

SetDelete(s, x) == SelectSeq(s, LAMBDA y : y # x)

RECURSIVE SetAddAll(_, _)
SetAddAll(s, xs) ==
  IF xs = <<>> THEN s ELSE SetAddAll(SetAdd(s, Head(xs)), Tail(xs))

RECURSIVE SetDeleteAll(_, _)
SetDeleteAll(s, xs) ==
  IF xs = <<>> THEN s ELSE SetDeleteAll(SetDelete(s, Head(xs)), Tail(xs))

NewSet(xs) == SetAddAll(<<>>, xs)

ObjectKeys(g) == [i \in 1..Len(g) |-> g[i].id]

\* formGraph[id] is not undefined
GraphHas(g, id) == \E i \in 1..Len(g) : g[i].id = id

\* formGraph[id]
GraphGet(g, id) ==
  IF GraphHas(g, id) THEN g[CHOOSE i \in 1..Len(g) : g[i].id = id] ELSE Undefined

(***************************************************************************)
(* dagTraversal: getDependencies.  Beside the three locals of the loop the *)
(* record keeps its history: expanded, the identifiers whose dependency    *)
(* list was enumerated (forEach), in order, and pushes, the number of      *)
(* elements put on the queue so far.                                       *)
(***************************************************************************)
getDependenciesInit(target) ==
  [dependencies |-> <<>>, queue |-> <<target>>, visited |-> {},
   expanded |-> <<>>, pushes |-> 1]

\* variant: dependencies are recorded but never queued for expansion
getDependenciesLoopNoPush(s, g) ==
  LET currentFormId == Head(s.queue)
      rest == Tail(s.queue)
  IN IF currentFormId \in s.visited \/ ~GraphHas(g, currentFormId)
     THEN [s EXCEPT !.queue = rest, !.visited = @ \cup {currentFormId}]
     ELSE [dependencies |-> SetAddAll(s.dependencies, GraphGet(g, currentFormId).dependencies),
           queue |-> rest,
           visited |-> s.visited \cup {currentFormId},
           expanded |-> Append(s.expanded, currentFormId),
           pushes |-> s.pushes]

\* variant: an identifier met again is put back on the queue instead of dropped
getDependenciesLoopRequeue(s, g) ==
  LET currentFormId == Head(s.queue)
      rest == Tail(s.queue)
  IN IF currentFormId \in s.visited
     THEN [s EXCEPT !.queue = Append(rest, currentFormId)]
     ELSE IF ~GraphHas(g, currentFormId)
          THEN [s EXCEPT !.queue = rest, !.visited = @ \cup {currentFormId}]
          ELSE [dependencies |-> SetAddAll(s.dependencies, GraphGet(g, currentFormId).dependencies),
                queue |-> rest \o GraphGet(g, currentFormId).dependencies,
                visited |-> s.visited \cup {currentFormId},
                expanded |-> Append(s.expanded, currentFormId),
                pushes |-> s.pushes + Len(GraphGet(g, currentFormId).dependencies)]

\* one iteration of the while loop
getDependenciesLoop(s, g) ==
  LET currentFormId == Head(s.queue)
      rest == Tail(s.queue)
  IN IF currentFormId \in s.visited
     THEN [s EXCEPT !.queue = rest]
     ELSE LET currentForm == GraphGet(g, currentFormId)
              seen == s.visited \cup {currentFormId}
          IN IF ~GraphHas(g, currentFormId)
             THEN [s EXCEPT !.queue = rest, !.visited = seen]
             ELSE [dependencies |-> SetAddAll(s.dependencies, currentForm.dependencies),
                   queue |-> rest \o currentForm.dependencies,
                   visited |-> seen,
                   expanded |-> Append(s.expanded, currentFormId),
                   pushes |-> s.pushes + Len(currentForm.dependencies)]

RECURSIVE getDependenciesRun(_, _)
getDependenciesRun(s, g) ==
  IF s.queue = <<>> THEN s.dependencies
  ELSE getDependenciesRun(getDependenciesLoop(s, g), g)

getDependencies(target, g) == getDependenciesRun(getDependenciesInit(target), g)

\* variant: the whole reachable set is returned
getDirectDependenciesAll(target, g) == getDependencies(target, g)

getDirectDependencies(target, g) ==
  LET form == GraphGet(g, target)
  IN IF ~GraphHas(g, target) THEN <<>> ELSE NewSet(form.dependencies)

\* variant: the direct dependencies are not removed
getTransitiveDependenciesKeepDirect(target, g) == getDependencies(target, g)

\* variant: only the first direct dependency is removed
getTransitiveDependenciesDeleteFirst(target, g) ==
  LET direct == getDirectDependencies(target, g)
  IN SetDeleteAll(getDependencies(target, g),
                  IF direct = <<>> THEN <<>> ELSE <<Head(direct)>>)

\* variant: the direct identifiers are taken from the form's own list, not
\* from a copy, and the delete loop empties that list as well
getTransitiveDependenciesHeapInPlace(target, g) ==
  LET direct == getDirectDependencies(target, g)
  IN [formGraph |-> [i \in 1..Len(g) |->
                       IF g[i].id = target
                       THEN [g[i] EXCEPT !.dependencies = SetDeleteAll(@, direct)]
                       ELSE g[i]],
      allDependencies |-> SetDeleteAll(getDependencies(target, g), direct),
      directDependencies |-> <<>>]

\* the objects getTransitiveDependencies leaves behind: allDependencies is
\* the Set created by getDependencies, directDependencies the Set created by
\* getDirectDependencies from a copy of the form's list; delete acts on
\* allDependencies only
getTransitiveDependenciesHeap(target, g) ==
  LET direct == getDirectDependencies(target, g)
  IN [formGraph |-> g,
      allDependencies |-> SetDeleteAll(getDependencies(target, g), direct),
      directDependencies |-> direct]

getTransitiveDependencies(target, g) ==
  getTransitiveDependenciesHeap(target, g).allDependencies

(***************************************************************************)
(* dagTraversal: hasCircularDependencies                                   *)
(*                                                                         *)
(* The recursion of hasCycle is kept as an explicit stack of frames        *)
(* [formId, i], i being the position of the for-of loop in the form's      *)
(* dependency list; keyIdx is the position of the outer loop in            *)
(* Object.keys(formGraph).  A caller's position is advanced when the call  *)
(* is made: a callee returning false resumes it there, a callee returning  *)
(* true ends the whole computation.  entered is the history of the calls   *)
(* of hasCycle: the identifiers it was entered with, in order.             *)
(***************************************************************************)
hasCircularDependenciesInit ==
  [visited |-> {}, recursionStack |-> {}, frames |-> <<>>, keyIdx |-> 1,
   done |-> FALSE, value |-> FALSE, entered |-> <<>>]

\* entry of hasCycle(formId), up to the start of its for-of loop
hasCycleEnter(s, g, formId) ==
  LET seen == s.visited \cup {formId}
      onPath == s.recursionStack \cup {formId}
  IN IF ~GraphHas(g, formId)
     THEN [s EXCEPT !.visited = seen, !.recursionStack = onPath \ {formId},
                    !.entered = Append(@, formId)]
     ELSE [s EXCEPT !.visited = seen, !.recursionStack = onPath,
                    !.frames = Append(@, [formId |-> formId, i |-> 1]),
                    !.entered = Append(@, formId)]

\* variant: any dependency already visited counts as a cycle
hasCycleLoopVisitedOnly(s, g) ==
  LET n == Len(s.frames)
      top == s.frames[n]
      deps == GraphGet(g, top.formId).dependencies
  IN IF top.i > Len(deps)
     THEN [s EXCEPT !.recursionStack = @ \ {top.formId},
                    !.frames = SubSeq(@, 1, n - 1)]
     ELSE LET depId == deps[top.i]
              advanced == [s EXCEPT !.frames[n].i = top.i + 1]
          IN IF depId \notin s.visited
             THEN hasCycleEnter(advanced, g, depId)
             ELSE [s EXCEPT !.done = TRUE, !.value = TRUE]

\* variant: only the recursion stack is consulted before a dependency is entered
hasCycleLoopStackOnly(s, g) ==
  LET n == Len(s.frames)
      top == s.frames[n]
      deps == GraphGet(g, top.formId).dependencies
  IN IF top.i > Len(deps)
     THEN [s EXCEPT !.recursionStack = @ \ {top.formId},
                    !.frames = SubSeq(@, 1, n - 1)]
     ELSE LET depId == deps[top.i]
              advanced == [s EXCEPT !.frames[n].i = top.i + 1]
          IN IF depId \notin s.recursionStack
             THEN hasCycleEnter(advanced, g, depId)
             ELSE [s EXCEPT !.done = TRUE, !.value = TRUE]

\* one iteration of the for-of loop of the innermost hasCycle call, or its
\* return once the loop is exhausted
hasCycleLoop(s, g) ==
  LET n == Len(s.frames)
      top == s.frames[n]
      deps == GraphGet(g, top.formId).dependencies
  IN IF top.i > Len(deps)
     THEN [s EXCEPT !.recursionStack = @ \ {top.formId},
                    !.frames = SubSeq(@, 1, n - 1)]
     ELSE LET depId == deps[top.i]
              advanced == [s EXCEPT !.frames[n].i = top.i + 1]
          IN IF depId \notin s.visited
             THEN hasCycleEnter(advanced, g, depId)
             ELSE IF depId \in s.recursionStack
                  THEN [s EXCEPT !.done = TRUE, !.value = TRUE]
                  ELSE advanced

\* variant: hasCycle is started from the first key only
hasCircularDependenciesLoopFirstKey(s, g) ==
  LET keys == ObjectKeys(g)
  IN IF s.keyIdx > Len(keys) \/ s.keyIdx > 1
     THEN [s EXCEPT !.done = TRUE, !.value = FALSE]
     ELSE hasCycleEnter([s EXCEPT !.keyIdx = s.keyIdx + 1], g, keys[s.keyIdx])

\* one iteration of the loop over Object.keys(formGraph), or the final return
hasCircularDependenciesLoop(s, g) ==
  LET keys == ObjectKeys(g)
  IN IF s.keyIdx > Len(keys)
     THEN [s EXCEPT !.done = TRUE, !.value = FALSE]
     ELSE LET formId == keys[s.keyIdx]
              advanced == [s EXCEPT !.keyIdx = s.keyIdx + 1]
          IN IF formId \notin s.visited
             THEN hasCycleEnter(advanced, g, formId)
             ELSE advanced

hasCircularDependenciesStep(s, g) ==
  IF s.frames # <<>> THEN hasCycleLoop(s, g) ELSE hasCircularDependenciesLoop(s, g)

RECURSIVE hasCircularDependenciesRun(_, _)
hasCircularDependenciesRun(s, g) ==
  IF s.done THEN s.value
  ELSE hasCircularDependenciesRun(hasCircularDependenciesStep(s, g), g)

hasCircularDependencies(g) ==
  hasCircularDependenciesRun(hasCircularDependenciesInit, g)

(***************************************************************************)
(* dataSourceRegistry: the sources and the registry.  The Map<string,      *)
(* DataSource> is the sequence of its values in insertion order; Map.set   *)
(* on a key already present replaces the value where it stands.            *)
(***************************************************************************)
ActionPropertiesName == <<"A", "c", "t", "i", "o", "n", " ", "P", "r", "o", "p", "e", "r", "t", "i", "e", "s">>

OrganizationPropertiesName ==
  <<"O", "r", "g", "a", "n", "i", "z", "a", "t", "i", "o", "n", " ", "P", "r", "o", "p", "e", "r", "t", "i", "e", "s">>

FormDataSource(id, name, form) ==
  [id |-> id, name |-> name, type |-> "form", form |-> form]

GlobalDataSource(data) ==
  [id |-> GlobalActionId, name |-> ActionPropertiesName, type |-> "global",
   globalData |-> data]

OrganizationDataSource(data) ==
  [id |-> GlobalOrgId, name |-> OrganizationPropertiesName, type |-> "global",
   globalData |-> data]

NewRegistry == <<>>

registryHas(sources, id) == \E i \in 1..Len(sources) : sources[i].id = id

\* variant: an identifier already present keeps its first source
registerKeepFirst(sources, source) ==
  IF registryHas(sources, source.id) THEN sources ELSE Append(sources, source)

\* variant: every call adds an entry
registerAlwaysAppend(sources, source) == Append(sources, source)

register(sources, source) ==
  IF registryHas(sources, source.id)
  THEN [i \in 1..Len(sources) |->
          IF sources[i].id = source.id THEN source ELSE sources[i]]
  ELSE Append(sources, source)

getAll(sources) == sources

\* defined only where registryHas holds; get returns undefined elsewhere
get(sources, id) == sources[CHOOSE i \in 1..Len(sources) : sources[i].id = id]

clear(sources) == <<>>

getByType(sources, type) == SelectSeq(getAll(sources), LAMBDA source : source.type = type)

(***************************************************************************)
(* dataSourceRegistry: getFields of the three source classes               *)
(***************************************************************************)
UpperOf ==
  [a |-> "A", b |-> "B", c |-> "C", d |-> "D", e |-> "E", f |-> "F", g |-> "G",
   h |-> "H", i |-> "I", j |-> "J", k |-> "K", l |-> "L", m |-> "M", n |-> "N",
   o |-> "O", p |-> "P", q |-> "Q", r |-> "R", s |-> "S", t |-> "T", u |-> "U",
   v |-> "V", w |-> "W", x |-> "X", y |-> "Y", z |-> "Z"]

\* String.prototype.toUpperCase on a string of at most one character
toUpperCase(str) ==
  IF str = <<>> THEN <<>>
  ELSE IF str[1] \in DOMAIN UpperOf THEN <<UpperOf[str[1]]>> ELSE str

\* word.charAt(0)
charAt0(word) == IF word = <<>> THEN <<>> ELSE <<word[1]>>

\* word.slice(1)
slice1(word) == IF word = <<>> THEN <<>> ELSE Tail(word)

\* prop.split('_')
RECURSIVE split(_)
split(prop) ==
  IF \A i \in 1..Len(prop) : prop[i] # "_" THEN <<prop>>
  ELSE LET at == CHOOSE i \in 1..Len(prop) :
                   prop[i] = "_" /\ \A j \in 1..(i - 1) : prop[j] # "_"
       IN <<SubSeq(prop, 1, at - 1)>> \o split(SubSeq(prop, at + 1, Len(prop)))

\* words.join(' ')
RECURSIVE join(_)
join(words) ==
  IF words = <<>> THEN <<>>
  ELSE IF Len(words) = 1 THEN words[1]
  ELSE words[1] \o <<" ">> \o join(Tail(words))

\* variant: only the first word is capitalised
formatPropertyNameFirstWord(prop) ==
  LET words == split(prop)
  IN join([i \in 1..Len(words) |->
             IF i = 1 THEN toUpperCase(charAt0(words[i])) \o slice1(words[i])
             ELSE words[i]])

formatPropertyName(prop) ==
  LET words == split(prop)
  IN join([i \in 1..Len(words) |-> toUpperCase(charAt0(words[i])) \o slice1(words[i])])

ActionPrefix == <<"A", "c", "t", "i", "o", "n", ".">>

ClientOrgPrefix == <<"c", "l", "i", "e", "n", "t", "O", "r", "g", ".">>

\* variant: the path is built from the form's own name
FormDataSourceGetFieldsFormName(source) ==
  [i \in 1..Len(source.form.fields) |->
     LET field == source.form.fields[i]
     IN [id |-> field.id, label |-> field.label, type |-> field.type,
         path |-> source.form.name \o <<".">> \o field.label]]

FormDataSourceGetFields(source) ==
  [i \in 1..Len(source.form.fields) |->
     LET field == source.form.fields[i]
     IN [id |-> field.id, label |-> field.label, type |-> field.type,
         path |-> source.name \o <<".">> \o field.label]]

GlobalDataSourceGetFields(source) ==
  [i \in 1..Len(source.globalData.actionProperties) |->
     LET prop == source.globalData.actionProperties[i]
     IN [id |-> prop, label |-> formatPropertyName(prop), type |-> "text",
         path |-> ActionPrefix \o formatPropertyName(prop)]]

OrganizationDataSourceGetFields(source) ==
  [i \in 1..Len(source.globalData.clientOrgProperties) |->
     LET prop == source.globalData.clientOrgProperties[i]
     IN [id |-> prop, label |-> formatPropertyName(prop), type |-> "text",
         path |-> ClientOrgPrefix \o formatPropertyName(prop)]]

\* source.getFields(), dispatched on the class of the source
getFields(source) ==
  IF source.type = "form" THEN FormDataSourceGetFields(source)
  ELSE IF source.id = GlobalActionId THEN GlobalDataSourceGetFields(source)
  ELSE OrganizationDataSourceGetFields(source)

(***************************************************************************)
(* useDataSources: the body of the memoised computation                    *)
(***************************************************************************)
EmptySources ==
  [directDependencies |-> <<>>, transitiveDependencies |-> <<>>, globalSources |-> <<>>]

\* Object.values(formGraph).forEach(form => registry.register(...))
RECURSIVE registerForms(_, _)
registerForms(sources, forms) ==
  IF forms = <<>> THEN sources
  ELSE registerForms(register(sources, FormDataSource(Head(forms).id, Head(forms).name, Head(forms))),
                     Tail(forms))

\* variant: the registry is filtered by the identifiers, in registry order
mapGetDefinedRegistryOrder(sources, ids) ==
  SelectSeq(sources, LAMBDA source : source.id \in Range(ids))

\* Array.from(ids).map(depId => registry.get(depId)).filter(source => source !== undefined)
RECURSIVE mapGetDefined(_, _)
mapGetDefined(sources, ids) ==
  IF ids = <<>> THEN <<>>
  ELSE (IF registryHas(sources, Head(ids)) THEN <<get(sources, Head(ids))>> ELSE <<>>)
         \o mapGetDefined(sources, Tail(ids))

\* variant: the global sources are registered without looking at the snapshot
categorizeAnySnapshot(target, g, data) ==
  LET withForms == registerForms(NewRegistry, g)
      registry == register(register(withForms, GlobalDataSource(data)),
                           OrganizationDataSource(data))
      directDeps == getDirectDependencies(target, g)
      transitiveDeps == getTransitiveDependencies(target, g)
  IN [directDependencies |-> mapGetDefined(registry, directDeps),
      transitiveDependencies |-> mapGetDefined(registry, transitiveDeps),
      globalSources |-> getByType(registry, "global")]

categorize(target, g, data) ==
  LET withForms == registerForms(NewRegistry, g)
      registry == IF data # NullData
                  THEN register(register(withForms, GlobalDataSource(data)),
                                OrganizationDataSource(data))
                  ELSE withForms
      directDeps == getDirectDependencies(target, g)
      transitiveDeps == getTransitiveDependencies(target, g)
  IN [directDependencies |-> mapGetDefined(registry, directDeps),
      transitiveDependencies |-> mapGetDefined(registry, transitiveDeps),
      globalSources |-> getByType(registry, "global")]

\* variant: the early return for a missing target is left out
useDataSourcesNoEarlyReturn(target, g, data) == categorize(target, g, data)

useDataSources(target, g, data) ==
  IF target = Null THEN EmptySources ELSE categorize(target, g, data)

(***************************************************************************)
(* usePrefillMappings: the mappings list and its copy in localStorage.     *)
(* The item stored under STORAGE_KEY is null (no item), the empty string,  *)
(* a text that is no JSON, or the JSON text of a list: the sequence of its *)
(* objects, each the sequence of its <<property, value>> pairs.            *)
(***************************************************************************)
STORAGE_KEY == "prefill-mappings"

NullItem == [key |-> STORAGE_KEY, kind |-> "null"]

EmptyItem == [key |-> STORAGE_KEY, kind |-> "empty"]

CorruptItem == [key |-> STORAGE_KEY, kind |-> "corrupt"]

PropertyNames ==
  <<"targetFormId", "targetFieldId", "sourceType", "sourceFormId", "sourceFieldId",
    "sourcePath">>

\* JSON.stringify of one object: a property whose value is undefined is left out
stringifyObject(m) ==
  SelectSeq([i \in 1..Len(PropertyNames) |-> <<PropertyNames[i], m[PropertyNames[i]]>>],
            LAMBDA pair : pair[2] # Undefined)

JSONstringify(list) ==
  [key |-> STORAGE_KEY, kind |-> "json",
   items |-> [i \in 1..Len(list) |-> stringifyObject(list[i])]]

\* JSON.parse of one object: a property that is not in the text reads undefined
parseObject(pairs) ==
  [name \in Range(PropertyNames) |->
     IF \E i \in 1..Len(pairs) : pairs[i][1] = name
     THEN pairs[CHOOSE i \in 1..Len(pairs) : pairs[i][1] = name][2]
     ELSE Undefined]

JSONparse(item) ==
  IF item.kind = "json"
  THEN [threw |-> FALSE, value |-> [i \in 1..Len(item.items) |-> parseObject(item.items[i])]]
  ELSE [threw |-> TRUE]

\* variant: the initializer has no try/catch
loadMappingsNoCatch(item, getItemThrows) ==
  IF getItemThrows THEN [mappings |-> <<>>, escaped |-> TRUE]
  ELSE IF item.kind \in {"null", "empty"} THEN [mappings |-> <<>>, escaped |-> FALSE]
  ELSE IF JSONparse(item).threw THEN [mappings |-> <<>>, escaped |-> TRUE]
  ELSE [mappings |-> JSONparse(item).value, escaped |-> FALSE]

\* the useState initializer: escaped tells whether an exception leaves it
loadMappings(item, getItemThrows) ==
  IF getItemThrows THEN [mappings |-> <<>>, escaped |-> FALSE]
  ELSE IF item.kind \in {"null", "empty"} THEN [mappings |-> <<>>, escaped |-> FALSE]
  ELSE IF JSONparse(item).threw THEN [mappings |-> <<>>, escaped |-> FALSE]
  ELSE [mappings |-> JSONparse(item).value, escaped |-> FALSE]

\* variant: the effect writes nothing when the list is empty
persistMappingsSkipEmpty(list, item, setItemThrows) ==
  IF setItemThrows \/ list = <<>> THEN [localStorage |-> item, escaped |-> FALSE]
  ELSE [localStorage |-> JSONstringify(list), escaped |-> FALSE]

\* variant: the effect has no try/catch
persistMappingsNoCatch(list, item, setItemThrows) ==
  IF setItemThrows THEN [localStorage |-> item, escaped |-> TRUE]
  ELSE [localStorage |-> JSONstringify(list), escaped |-> FALSE]

\* the persist effect: the item afterwards, and whether an exception leaves it
persistMappings(list, item, setItemThrows) ==
  IF setItemThrows THEN [localStorage |-> item, escaped |-> FALSE]
  ELSE [localStorage |-> JSONstringify(list), escaped |-> FALSE]

getMappingsForForm(list, formId) == SelectSeq(list, LAMBDA m : m.targetFormId = formId)

\* mappings.find(...) is not undefined
hasMapping(list, formId, fieldId) ==
  \E i \in 1..Len(list) : list[i].targetFormId = formId /\ list[i].targetFieldId = fieldId

\* defined only where hasMapping holds; getMapping returns undefined elsewhere
getMapping(list, formId, fieldId) ==
  list[CHOOSE i \in 1..Len(list) :
         /\ list[i].targetFormId = formId /\ list[i].targetFieldId = fieldId
         /\ \A j \in 1..(i - 1) :
              ~(list[j].targetFormId = formId /\ list[j].targetFieldId = fieldId)]

\* variant: the new mapping is added without removing the old one
setMappingNoFilter(prev, mapping) == Append(prev, mapping)

\* variant: every mapping of the same form is removed
setMappingFilterForm(prev, mapping) ==
  Append(SelectSeq(prev, LAMBDA m : m.targetFormId # mapping.targetFormId), mapping)

setMapping(prev, mapping) ==
  LET filtered == SelectSeq(prev, LAMBDA m :
                              ~(m.targetFormId = mapping.targetFormId
                                /\ m.targetFieldId = mapping.targetFieldId))
  IN Append(filtered, mapping)

\* variant: only the field identifier is compared
clearMappingAnyForm(prev, formId, fieldId) ==
  SelectSeq(prev, LAMBDA m : ~(m.targetFieldId = fieldId))

clearMapping(prev, formId, fieldId) ==
  SelectSeq(prev, LAMBDA m : ~(m.targetFormId = formId /\ m.targetFieldId = fieldId))

clearAllMappingsForForm(prev, formId) ==
  SelectSeq(prev, LAMBDA m : m.targetFormId # formId)

clearAllMappings == <<>>

(***************************************************************************)
(* DataSourceModal: the handlers.  Each yields the state it sets and the   *)
(* calls it makes on the props onSelectField and onClose, in order.        *)
(***************************************************************************)
NoField == [isNull |-> TRUE]

NoPending == [isNull |-> TRUE]

createMapping(targetField, source, field) ==
  <<[fn |-> "onSelectField",
     mapping |-> [targetFormId |-> "", targetFieldId |-> targetField.id,
                  sourceType |-> IF source.type = "form" THEN "form" ELSE "global",
                  sourceFormId |-> IF source.type = "form" THEN source.id ELSE Undefined,
                  sourceFieldId |-> field.id, sourcePath |-> field.path]],
    [fn |-> "onClose"]>>

\* variant: the types are not compared
handleSelectFieldNoCheck(m, source, field) ==
  [showConfirmation |-> m.showConfirmation, pendingMapping |-> m.pendingMapping,
   calls |-> createMapping(m.targetField, source, field)]

handleSelectField(m, source, field) ==
  IF field.type # m.targetField.type
  THEN [showConfirmation |-> TRUE,
        pendingMapping |-> [source |-> source, field |-> field],
        calls |-> <<>>]
  ELSE [showConfirmation |-> m.showConfirmation, pendingMapping |-> m.pendingMapping,
        calls |-> createMapping(m.targetField, source, field)]

\* the onSelectField prop handed to the three DataSourceTree sections
treeOnSelectField(m, source, field) ==
  IF m.showConfirmation
  THEN [showConfirmation |-> m.showConfirmation, pendingMapping |-> m.pendingMapping,
        calls |-> <<>>]
  ELSE handleSelectField(m, source, field)

handleConfirmTypeMismatch(m) ==
  [showConfirmation |-> FALSE, pendingMapping |-> NoPending,
   calls |-> IF m.pendingMapping # NoPending
             THEN createMapping(m.targetField, m.pendingMapping.source,
                                m.pendingMapping.field)
             ELSE <<>>]

handleCancelTypeMismatch(m) ==
  [showConfirmation |-> FALSE, pendingMapping |-> NoPending, calls |-> <<>>]

\* onClick of the backdrop of the modal
backdropOnClick(m) ==
  IF m.showConfirmation THEN handleCancelTypeMismatch(m)
  ELSE [showConfirmation |-> m.showConfirmation, pendingMapping |-> m.pendingMapping,
        calls |-> <<[fn |-> "onClose"]>>]

\* useEffect(..., [isOpen])
closeCleanup(m) ==
  IF ~m.isOpen THEN [showConfirmation |-> FALSE, pendingMapping |-> NoPending]
  ELSE [showConfirmation |-> m.showConfirmation, pendingMapping |-> m.pendingMapping]

(***************************************************************************)
(* useForms: loadForms up to its await, and its continuations.  The state  *)
(* setters of one continuation are applied together.                       *)
(***************************************************************************)
MaxLoads == 3

Pending == [state |-> "pending"]

Rejected == [state |-> "rejected"]

Fulfilled(data) == [state |-> "fulfilled", data |-> data]

\* data.forms.forEach(form => { graph[form.id] = form }): an assignment to a key
\* already present replaces the form where it stands
RECURSIVE buildGraph(_, _)
buildGraph(graph, forms) ==
  IF forms = <<>> THEN graph
  ELSE LET form == Head(forms)
           assigned == IF GraphHas(graph, form.id)
                       THEN [i \in 1..Len(graph) |->
                               IF graph[i].id = form.id THEN form ELSE graph[i]]
                       ELSE Append(graph, form)
       IN buildGraph(assigned, Tail(forms))

\* useState initial values
useFormsInit ==
  [forms |-> <<>>, formGraph |-> <<>>, globalData |-> NullData, loading |-> TRUE,
   error |-> Null, inflight |-> {}, started |-> 0, outcome |-> <<>>,
   overlapped |-> FALSE]

\* loadForms up to `await fetchFormBlueprint()`
loadFormsStart(l) ==
  [l EXCEPT !.loading = TRUE, !.error = Null,
            !.inflight = @ \cup {l.started + 1},
            !.started = @ + 1,
            !.outcome = Append(@, Pending),
            !.overlapped = @ \/ l.inflight # {}]

\* loadForms after the await, the fetch of call n having resolved to data
loadFormsFulfilled(l, n, data) ==
  [l EXCEPT !.forms = data.forms, !.globalData = data.globalData,
            !.formGraph = buildGraph(<<>>, data.forms),
            !.loading = FALSE,
            !.inflight = @ \ {n}, !.outcome[n] = Fulfilled(data)]

\* loadForms after the await, the fetch of call n having thrown: catch, finally
loadFormsRejected(l, n) ==
  [l EXCEPT !.error = "Error", !.loading = FALSE,
            !.inflight = @ \ {n}, !.outcome[n] = Rejected]

(***************************************************************************)
(* State machine                                                           *)
(***************************************************************************)
NoResult == [op |-> "none"]

NoBfs ==
  [dependencies |-> <<>>, queue |-> <<>>, visited |-> {}, expanded |-> <<>>, pushes |-> 0]

NoDfs ==
  [visited |-> {}, recursionStack |-> {}, frames |-> <<>>, keyIdx |-> 0,
   done |-> FALSE, value |-> FALSE, entered |-> <<>>]

NoSource == [id |-> "none"]

\* no usePrefillMappings hook is mounted
StoreIdle ==
  /\ mappings = <<>>
  /\ localStorage = NullItem
  /\ storePc = "unmounted"

\* a DataSourceModal mounted closed, its mount effect run
ModalIdle ==
  modal = [isOpen |-> FALSE, targetField |-> NoField, showConfirmation |-> FALSE,
           pendingMapping |-> NoPending, effectDue |-> FALSE]

\* a useForms hook before its first render
LoaderIdle == loader = useFormsInit

\* no registry instance and no getFields receiver are under observation
OutsideResolverIdle ==
  /\ registrySources = NewRegistry
  /\ registered = <<>>
  /\ fieldSource = NoSource
  /\ StoreIdle
  /\ ModalIdle
  /\ LoaderIdle

\* The resolver and the categorizer never enumerate the keys of the graph and
\* dependency lists range over every sequence of identifiers, so one key order
\* per key set covers every graph up to a renaming of the forms.
Init ==
  /\ IsGraphOver(formGraph, SortedKeyOrders)
  /\ targetFormId \in FormIds
  /\ globalData = NullData
  /\ pc = "idle"
  /\ bfs = NoBfs
  /\ dfs = NoDfs
  /\ result = NoResult
  /\ OutsideResolverIdle

getDependenciesCall ==
  /\ pc = "idle"
  /\ pc' = "getDependencies"
  /\ bfs' = getDependenciesInit(targetFormId)
  /\ result' = NoResult
  /\ UNCHANGED <<formGraph, targetFormId, globalData, dfs>>
  /\ UNCHANGED outsideResolver

getDependenciesIterate ==
  /\ pc = "getDependencies"
  /\ bfs.queue # <<>>
  /\ bfs' = getDependenciesLoop(bfs, formGraph)
  /\ UNCHANGED <<formGraph, targetFormId, globalData, pc, dfs, result>>
  /\ UNCHANGED outsideResolver

getDependenciesReturn ==
  /\ pc = "getDependencies"
  /\ bfs.queue = <<>>
  /\ result' = [op |-> "getDependencies", value |-> bfs.dependencies]
  /\ bfs' = NoBfs
  /\ pc' = "idle"
  /\ UNCHANGED <<formGraph, targetFormId, globalData, dfs>>
  /\ UNCHANGED outsideResolver

getDirectDependenciesCall ==
  /\ pc = "idle"
  /\ result' = [op |-> "getDirectDependencies",
                value |-> getDirectDependencies(targetFormId, formGraph)]
  /\ UNCHANGED <<formGraph, targetFormId, globalData, pc, bfs, dfs>>
  /\ UNCHANGED outsideResolver

getTransitiveDependenciesCall ==
  /\ pc = "idle"
  /\ result' = [op |-> "getTransitiveDependencies",
                value |-> getTransitiveDependencies(targetFormId, formGraph)]
  /\ formGraph' = getTransitiveDependenciesHeap(targetFormId, formGraph).formGraph
  /\ UNCHANGED <<targetFormId, globalData, pc, bfs, dfs>>
  /\ UNCHANGED outsideResolver

hasCircularDependenciesCall ==
  /\ pc = "idle"
  /\ pc' = "hasCircularDependencies"
  /\ dfs' = hasCircularDependenciesInit
  /\ result' = NoResult
  /\ UNCHANGED <<formGraph, targetFormId, globalData, bfs>>
  /\ UNCHANGED outsideResolver

hasCircularDependenciesIterate ==
  /\ pc = "hasCircularDependencies"
  /\ ~dfs.done
  /\ dfs' = hasCircularDependenciesStep(dfs, formGraph)
  /\ UNCHANGED <<formGraph, targetFormId, globalData, pc, bfs, result>>
  /\ UNCHANGED outsideResolver

hasCircularDependenciesReturn ==
  /\ pc = "hasCircularDependencies"
  /\ dfs.done
  /\ result' = [op |-> "hasCircularDependencies", value |-> dfs.value]
  /\ dfs' = NoDfs
  /\ pc' = "idle"
  /\ UNCHANGED <<formGraph, targetFormId, globalData, bfs>>
  /\ UNCHANGED outsideResolver

Next ==
  \/ getDependenciesCall
  \/ getDependenciesIterate
  \/ getDependenciesReturn
  \/ getDirectDependenciesCall
  \/ getTransitiveDependenciesCall

Spec == Init /\ [][Next]_vars

\* every graph of the universe, in every key order
InitCycle ==
  /\ IsGraphOver(formGraph, KeyOrders)
  /\ targetFormId = Null
  /\ globalData = NullData
  /\ pc = "idle"
  /\ bfs = NoBfs
  /\ dfs = NoDfs
  /\ result = NoResult
  /\ OutsideResolverIdle

NextCycle ==
  \/ hasCircularDependenciesCall
  \/ hasCircularDependenciesIterate
  \/ hasCircularDependenciesReturn

SpecCycle == InitCycle /\ [][NextCycle]_vars

NextLive ==
  \/ getDependenciesCall
  \/ getDependenciesIterate
  \/ getDependenciesReturn
  \/ hasCircularDependenciesCall
  \/ hasCircularDependenciesIterate
  \/ hasCircularDependenciesReturn

\* the graphs of the universe, alone or behind the form with the reserved id
InitCategorize ==
  /\ \E first \in {<<>>, <<ReservedIdForm>>}, o \in SortedKeyOrders :
       \E g \in GraphsFrom(o, MaxEdges) : formGraph = first \o g
  /\ targetFormId \in FormIds \cup {Null}
  /\ globalData \in Snapshots
  /\ pc = "idle"
  /\ bfs = NoBfs
  /\ dfs = NoDfs
  /\ result = NoResult
  /\ OutsideResolverIdle

useDataSourcesCall ==
  /\ pc = "idle"
  /\ result' = [op |-> "useDataSources",
                value |-> useDataSources(targetFormId, formGraph, globalData)]
  /\ UNCHANGED <<formGraph, targetFormId, globalData, pc, bfs, dfs>>
  /\ UNCHANGED outsideResolver

NextCategorize == useDataSourcesCall

SpecCategorize == InitCategorize /\ [][NextCategorize]_vars

\* every operation that is handed the graph, in any interleaving of whole
\* calls, with and without a snapshot
InitFrame ==
  /\ IsGraphOver(formGraph, SortedKeyOrders)
  /\ targetFormId \in FormIds
  /\ globalData \in {NullData, SomeGlobalData}
  /\ pc = "idle"
  /\ bfs = NoBfs
  /\ dfs = NoDfs
  /\ result = NoResult
  /\ OutsideResolverIdle

NextFrame ==
  \/ getDependenciesCall
  \/ getDependenciesIterate
  \/ getDependenciesReturn
  \/ getDirectDependenciesCall
  \/ getTransitiveDependenciesCall
  \/ hasCircularDependenciesCall
  \/ hasCircularDependenciesIterate
  \/ hasCircularDependenciesReturn
  \/ useDataSourcesCall

SpecFrame == InitFrame /\ [][NextFrame]_vars

\* the sources handed to register: two identifiers with two form sources
\* each, the action source over two snapshots, and a form source whose
\* identifier is the one of the action source
RegistrySourceUniverse ==
  {FormDataSource(id, name, MkForm("C", <<>>)) :
     id \in {"A", "B", GlobalActionId}, name \in {FormName.A, FormName.B}}
  \cup {GlobalDataSource(EmptyGlobalData), GlobalDataSource(SomeGlobalData)}

\* a fresh DataSourceRegistry
InitRegistry ==
  /\ formGraph = <<>>
  /\ targetFormId = Null
  /\ globalData = NullData
  /\ pc = "idle"
  /\ bfs = NoBfs
  /\ dfs = NoDfs
  /\ result = NoResult
  /\ OutsideResolverIdle

registerCall ==
  /\ Len(registered) < MaxRegistered
  /\ \E source \in RegistrySourceUniverse :
       /\ registrySources' = register(registrySources, source)
       /\ registered' = Append(registered, source)
  /\ result' = [op |-> "register"]
  /\ UNCHANGED outsideRegistry

clearCall ==
  /\ registrySources' = clear(registrySources)
  /\ registered' = <<>>
  /\ result' = [op |-> "clear"]
  /\ UNCHANGED outsideRegistry

NextRegistry ==
  \/ registerCall
  \/ clearCall

SpecRegistry == InitRegistry /\ [][NextRegistry]_vars

\* the receivers of getFields: form sources over every field list and
\* display name, and the two global sources over every list of properties
\* of their own group
IsFieldSource(source) ==
  \/ \E name \in SourceNames, fields \in FieldLists(MaxFields) :
       source = FormDataSource("A", name,
                               [id |-> "A", name |-> FormName.A, fields |-> fields,
                                dependencies |-> <<>>])
  \/ \E props \in PropLists(MaxProps) :
       source = GlobalDataSource([actionProperties |-> props,
                                  clientOrgProperties |-> <<CreatedAt>>])
  \/ \E props \in PropLists(MaxProps) :
       source = OrganizationDataSource([actionProperties |-> <<CreatedAt>>,
                                        clientOrgProperties |-> props])

\* a data source whose getFields is about to be called
InitFields ==
  /\ formGraph = <<>>
  /\ targetFormId = Null
  /\ globalData = NullData
  /\ pc = "idle"
  /\ bfs = NoBfs
  /\ dfs = NoDfs
  /\ result = NoResult
  /\ registrySources = NewRegistry
  /\ registered = <<>>
  /\ IsFieldSource(fieldSource)
  /\ StoreIdle
  /\ ModalIdle
  /\ LoaderIdle

getFieldsCall ==
  /\ fieldSource # NoSource
  /\ result' = [op |-> "getFields", value |-> getFields(fieldSource)]
  /\ UNCHANGED <<outsideFields, fieldSource>>

NextFields == getFieldsCall

SpecFields == InitFields /\ [][NextFields]_vars

\* the (targetFormId, targetFieldId) pairs of the mappings
MappingKeys == {<<"A", "f1">>, <<"A", "f2">>, <<"B", "f1">>}

FormSource ==
  [sourceType |-> "form", sourceFormId |-> "C", sourceFieldId |-> "email",
   sourcePath |-> "Form C.Email"]

GlobalSource ==
  [sourceType |-> "global", sourceFormId |-> Undefined, sourceFieldId |-> "status",
   sourcePath |-> "Action.Status"]

PrefillMapping(key, source) ==
  [targetFormId |-> key[1], targetFieldId |-> key[2], sourceType |-> source.sourceType,
   sourceFormId |-> source.sourceFormId, sourceFieldId |-> source.sourceFieldId,
   sourcePath |-> source.sourcePath]

\* the mappings handed to setMapping: every key from a form source, one key
\* from a global source (no sourceFormId) as well
MappingUniverse ==
  {PrefillMapping(key, FormSource) : key \in MappingKeys}
  \cup {PrefillMapping(<<"A", "f1">>, GlobalSource)}

HasDuplicateKeys(list) ==
  \E i, j \in 1..Len(list) :
    /\ i # j
    /\ list[i].targetFormId = list[j].targetFormId
    /\ list[i].targetFieldId = list[j].targetFieldId

\* the lists an earlier session of the hook can have stored
StoredLists ==
  {list \in UNION {[1..k -> MappingUniverse] : k \in 0..Cardinality(MappingKeys)} :
     ~HasDuplicateKeys(list)}

\* before the hook is mounted, over every item the storage may hold
InitStore ==
  /\ formGraph = <<>>
  /\ targetFormId = Null
  /\ globalData = NullData
  /\ pc = "idle"
  /\ bfs = NoBfs
  /\ dfs = NoDfs
  /\ result = NoResult
  /\ registrySources = NewRegistry
  /\ registered = <<>>
  /\ fieldSource = NoSource
  /\ mappings = <<>>
  /\ storePc = "unmounted"
  /\ localStorage \in {NullItem, EmptyItem, CorruptItem}
                       \cup {JSONstringify(list) : list \in StoredLists}
  /\ ModalIdle
  /\ LoaderIdle

\* the first render: the initializer runs, the persist effect is scheduled
mountCall ==
  /\ storePc = "unmounted"
  /\ \E getItemThrows \in BOOLEAN :
       LET loaded == loadMappings(localStorage, getItemThrows)
       IN /\ mappings' = loaded.mappings
          /\ result' = [op |-> "mount", escaped |-> loaded.escaped,
                        getItemThrew |-> getItemThrows]
  /\ storePc' = "effect"
  /\ UNCHANGED <<localStorage, outsideStore>>

setMappingCall ==
  /\ storePc # "unmounted"
  /\ \E mapping \in MappingUniverse :
       /\ mappings' = setMapping(mappings, mapping)
       /\ result' = [op |-> "setMapping", mapping |-> mapping]
  /\ storePc' = "effect"
  /\ UNCHANGED <<localStorage, outsideStore>>

clearMappingCall ==
  /\ storePc # "unmounted"
  /\ \E key \in MappingKeys \cup {<<"B", "f2">>} :
       /\ mappings' = clearMapping(mappings, key[1], key[2])
       /\ result' = [op |-> "clearMapping", formId |-> key[1], fieldId |-> key[2]]
  /\ storePc' = "effect"
  /\ UNCHANGED <<localStorage, outsideStore>>

clearAllMappingsForFormCall ==
  /\ storePc # "unmounted"
  /\ \E formId \in {"A", "B", "C"} :
       /\ mappings' = clearAllMappingsForForm(mappings, formId)
       /\ result' = [op |-> "clearAllMappingsForForm", formId |-> formId]
  /\ storePc' = "effect"
  /\ UNCHANGED <<localStorage, outsideStore>>

clearAllMappingsCall ==
  /\ storePc # "unmounted"
  /\ mappings' = clearAllMappings
  /\ result' = [op |-> "clearAllMappings"]
  /\ storePc' = "effect"
  /\ UNCHANGED <<localStorage, outsideStore>>

\* useEffect(..., [mappings]) after the render that committed a new array
persistEffect ==
  /\ storePc = "effect"
  /\ \E setItemThrows \in BOOLEAN :
       LET persisted == persistMappings(mappings, localStorage, setItemThrows)
       IN /\ localStorage' = persisted.localStorage
          /\ result' = [op |-> "persist", wrote |-> ~setItemThrows,
                        escaped |-> persisted.escaped, after |-> result]
  /\ storePc' = "idle"
  /\ UNCHANGED <<mappings, outsideStore>>

NextStore ==
  \/ mountCall
  \/ setMappingCall
  \/ clearMappingCall
  \/ clearAllMappingsForFormCall
  \/ clearAllMappingsCall
  \/ persistEffect

SpecStore == InitStore /\ [][NextStore]_vars

\* the fields the parent opens the modal for
TargetFields ==
  {[id |-> "t1", label |-> "T1", type |-> "text"],
   [id |-> "t2", label |-> "T2", type |-> "date"],
   [id |-> "t3", label |-> "T3", type |-> "email"]}

\* the (source, field) pairs a click in a DataSourceTree can select: the modal
\* reads the identifier and type of the source, and the field as data
Selections ==
  {<<[id |-> "B", type |-> "form"],
     [id |-> "name", label |-> "Name", type |-> "text", path |-> "Form B.Name"]>>,
   <<[id |-> "B", type |-> "form"],
     [id |-> "dob", label |-> "Birth", type |-> "date", path |-> "Form B.Birth"]>>,
   <<[id |-> "A", type |-> "form"],
     [id |-> "email", label |-> "Email", type |-> "email", path |-> "Form A.Email"]>>,
   <<[id |-> "A", type |-> "form"],
     [id |-> "phone", label |-> "Phone", type |-> "text", path |-> "Form A.Phone"]>>,
   <<[id |-> GlobalActionId, type |-> "global"],
     [id |-> "status", label |-> "Status", type |-> "text", path |-> "action.Status"]>>,
   <<[id |-> GlobalOrgId, type |-> "global"],
     [id |-> "org_name", label |-> "Org Name", type |-> "text",
      path |-> "clientOrg.Org Name"]>>}

InitModal ==
  /\ formGraph = <<>>
  /\ targetFormId = Null
  /\ globalData = NullData
  /\ pc = "idle"
  /\ bfs = NoBfs
  /\ dfs = NoDfs
  /\ result = NoResult
  /\ registrySources = NewRegistry
  /\ registered = <<>>
  /\ fieldSource = NoSource
  /\ StoreIdle
  /\ ModalIdle
  /\ LoaderIdle

\* the modal renders its content and no effect is outstanding
Rendered == modal.isOpen /\ modal.targetField # NoField /\ ~modal.effectDue

\* the parent sets isOpen and targetField (App: setSelectedField, setIsModalOpen)
parentOpen ==
  /\ ~modal.isOpen
  /\ ~modal.effectDue
  /\ \E field \in TargetFields :
       modal' = [modal EXCEPT !.isOpen = TRUE, !.targetField = field, !.effectDue = TRUE]
  /\ result' = [op |-> "open", calls |-> <<>>]
  /\ UNCHANGED outsideModal

parentClose ==
  /\ modal.isOpen
  /\ ~modal.effectDue
  /\ modal' = [modal EXCEPT !.isOpen = FALSE, !.targetField = NoField, !.effectDue = TRUE]
  /\ result' = [op |-> "close", calls |-> <<>>]
  /\ UNCHANGED outsideModal

closeCleanupEffect ==
  /\ modal.effectDue
  /\ modal' = [modal EXCEPT !.showConfirmation = closeCleanup(modal).showConfirmation,
                            !.pendingMapping = closeCleanup(modal).pendingMapping,
                            !.effectDue = FALSE]
  /\ result' = [op |-> "effect", calls |-> <<>>]
  /\ UNCHANGED outsideModal

\* a click on a field of one of the DataSourceTree sections
selectFieldClick ==
  /\ Rendered
  /\ \E selection \in Selections :
       LET handled == treeOnSelectField(modal, selection[1], selection[2])
       IN /\ modal' = [modal EXCEPT !.showConfirmation = handled.showConfirmation,
                                    !.pendingMapping = handled.pendingMapping]
          /\ result' = [op |-> "selectField", source |-> selection[1],
                        field |-> selection[2], calls |-> handled.calls]
  /\ UNCHANGED outsideModal

\* Continue in the ConfirmationDialog
confirmClick ==
  /\ Rendered
  /\ modal.showConfirmation
  /\ LET handled == handleConfirmTypeMismatch(modal)
     IN /\ modal' = [modal EXCEPT !.showConfirmation = handled.showConfirmation,
                                  !.pendingMapping = handled.pendingMapping]
        /\ result' = [op |-> "confirm", calls |-> handled.calls]
  /\ UNCHANGED outsideModal

\* Cancel, Escape or the dialog's own backdrop in the ConfirmationDialog
cancelClick ==
  /\ Rendered
  /\ modal.showConfirmation
  /\ LET handled == handleCancelTypeMismatch(modal)
     IN /\ modal' = [modal EXCEPT !.showConfirmation = handled.showConfirmation,
                                  !.pendingMapping = handled.pendingMapping]
        /\ result' = [op |-> "cancel", calls |-> handled.calls]
  /\ UNCHANGED outsideModal

backdropClick ==
  /\ Rendered
  /\ LET handled == backdropOnClick(modal)
     IN /\ modal' = [modal EXCEPT !.showConfirmation = handled.showConfirmation,
                                  !.pendingMapping = handled.pendingMapping]
        /\ result' = [op |-> "backdrop", calls |-> handled.calls]
  /\ UNCHANGED outsideModal

\* the close button of the header
headerCloseClick ==
  /\ Rendered
  /\ result' = [op |-> "headerClose", calls |-> <<[fn |-> "onClose"]>>]
  /\ UNCHANGED <<modal, outsideModal>>

NextModal ==
  \/ parentOpen
  \/ parentClose
  \/ closeCleanupEffect
  \/ selectFieldClick
  \/ confirmClick
  \/ cancelClick
  \/ backdropClick
  \/ headerCloseClick

SpecModal == InitModal /\ [][NextModal]_vars

\* what fetchFormBlueprint may resolve to: the blueprint as the server holds
\* it when it answers
Responses ==
  {[forms |-> <<MkForm("A", <<>>)>>, globalData |-> EmptyGlobalData],
   [forms |-> <<MkForm("A", <<>>), MkForm("B", <<"A">>)>>, globalData |-> SomeGlobalData],
   [forms |-> <<MkForm("B", <<>>), MkForm("A", <<"B">>), MkForm("B", <<"C">>)>>,
    globalData |-> SomeGlobalData]}

InitForms ==
  /\ formGraph = <<>>
  /\ targetFormId = Null
  /\ globalData = NullData
  /\ pc = "idle"
  /\ bfs = NoBfs
  /\ dfs = NoDfs
  /\ result = NoResult
  /\ registrySources = NewRegistry
  /\ registered = <<>>
  /\ fieldSource = NoSource
  /\ StoreIdle
  /\ ModalIdle
  /\ LoaderIdle

\* useEffect(() => { loadForms() }, [])
mountLoadForms ==
  /\ loader.started = 0
  /\ loader' = loadFormsStart(loader)
  /\ UNCHANGED <<result, outsideLoader>>

\* refetch()
refetchCall ==
  /\ loader.started > 0
  /\ loader.started < MaxLoads
  /\ loader' = loadFormsStart(loader)
  /\ UNCHANGED <<result, outsideLoader>>

fetchFulfilled ==
  /\ \E n \in loader.inflight, data \in Responses :
       loader' = loadFormsFulfilled(loader, n, data)
  /\ UNCHANGED <<result, outsideLoader>>

fetchRejected ==
  /\ \E n \in loader.inflight : loader' = loadFormsRejected(loader, n)
  /\ UNCHANGED <<result, outsideLoader>>

NextForms ==
  \/ mountLoadForms
  \/ refetchCall
  \/ fetchFulfilled
  \/ fetchRejected

SpecForms == InitForms /\ [][NextForms]_vars

\* both traversals are synchronous loops: a loop that can take its next
\* iteration takes it, and a function whose loop has ended returns
LiveSpec ==
  /\ Init
  /\ [][NextLive]_vars
  /\ WF_vars(getDependenciesIterate)
  /\ WF_vars(getDependenciesReturn)
  /\ WF_vars(hasCircularDependenciesIterate)
  /\ WF_vars(hasCircularDependenciesReturn)


(***************************************************************************)
(* Graph-theoretic reference definitions                                   *)
(***************************************************************************)
\* the identifiers named by the dependency lists of the forms of ids that are
\* present in the graph
Successors(ids, g) ==
  UNION {Range(GraphGet(g, id).dependencies) : id \in {x \in ids : GraphHas(g, x)}}

RECURSIVE Closure(_, _)
Closure(ids, g) ==
  LET more == ids \cup Successors(ids, g)
  IN IF more = ids THEN ids ELSE Closure(more, g)

\* reachable from id by a path of one or more dependency edges
ReachableByOneOrMore(id, g) == Closure(Successors({id}, g), g)

\* reachable from id by a path of two or more dependency edges
ReachableByTwoOrMore(id, g) == Closure(Successors(Successors({id}, g), g), g)

\* some form present in the graph lies on a directed cycle
HasDirectedCycle(g) ==
  \E id \in Range(ObjectKeys(g)) : id \in ReachableByOneOrMore(id, g)

Returned(op) == pc = "idle" /\ result.op = op

CycleAB == <<MkForm("A", <<"B">>), MkForm("B", <<"A">>)>>

(***************************************************************************)
(* Claims                                                                  *)
(***************************************************************************)
\* C1: a form is never a member of its own getDependencies result, and on
\* the graph A -> [B], B -> [A] the result for A is exactly {B}.
C1_NoSelfDependency ==
  Returned("getDependencies") =>
    /\ targetFormId \notin Range(result.value)
    /\ (formGraph = CycleAB /\ targetFormId = "A") => Range(result.value) = {"B"}

C3_DirectTransitivePartition ==
  Returned("getTransitiveDependencies") =>
    LET direct == Range(getDirectDependencies(targetFormId, formGraph))
        transitive == Range(result.value)
    IN /\ direct \cap transitive = {}
       /\ direct \cup transitive = Range(getDependencies(targetFormId, formGraph))

C3_Witness ==
  /\ Returned("getTransitiveDependencies")
  /\ result.value # <<>>
  /\ targetFormId \in ReachableByOneOrMore(targetFormId, formGraph)
  /\ Successors({targetFormId}, formGraph) \cap
       ReachableByTwoOrMore(targetFormId, formGraph) # {}

\* C4: every call of getDependencies and of hasCircularDependencies returns,
\* on every graph: cyclic, self-dependent, with duplicates or dangling ids.
C4_Termination ==
  /\ (pc = "getDependencies") ~> (pc = "idle")
  /\ (pc = "hasCircularDependencies") ~> (pc = "idle")

C4_Witness ==
  /\ Returned("hasCircularDependencies")
  /\ result.value
  /\ targetFormId \in ReachableByOneOrMore(targetFormId, formGraph)
  /\ Len(formGraph) = 3
  /\ \A i \in 1..3 : Len(formGraph[i].dependencies) = 1

\* C5: hasCircularDependencies returns true exactly when some forms present
\* in the graph form a directed cycle, whatever the key order and the
\* connectivity; dangling identifiers and shared dependencies never yield true.
C5_HasCycleExact ==
  Returned("hasCircularDependencies") =>
    (result.value <=> HasDirectedCycle(formGraph))

C5_Witness ==
  /\ Returned("hasCircularDependencies")
  /\ result.value
  /\ Len(formGraph) = 3
  /\ formGraph[1].id \notin ReachableByOneOrMore(formGraph[1].id, formGraph)
  /\ formGraph[1].dependencies = <<>>

\* C6: getDirectDependencies returns exactly the identifiers of the target's
\* dependency list, without duplicates, and nothing for an absent target.
C6_DirectIsDependencyList ==
  Returned("getDirectDependencies") =>
    /\ Range(result.value) =
         (IF GraphHas(formGraph, targetFormId)
          THEN Range(GraphGet(formGraph, targetFormId).dependencies) ELSE {})
    /\ Cardinality(Range(result.value)) = Len(result.value)

C6_Witness ==
  /\ Returned("getDirectDependencies")
  /\ GraphHas(formGraph, targetFormId)
  /\ Len(result.value) < Len(GraphGet(formGraph, targetFormId).dependencies)
  /\ Range(result.value) # ReachableByOneOrMore(targetFormId, formGraph)

SourceIds(sources) == {sources[i].id : i \in 1..Len(sources)}

\* C8: for a non-null target no source of the direct or transitive bucket
\* has the target's own identifier, and no identifier is in both buckets.
C8_BucketsExcludeTarget ==
  (Returned("useDataSources") /\ targetFormId # Null) =>
    LET direct == SourceIds(result.value.directDependencies)
        transitive == SourceIds(result.value.transitiveDependencies)
    IN /\ targetFormId \notin direct \cup transitive
       /\ direct \cap transitive = {}

\* C9: every source of the direct and transitive buckets is the form-backed
\* source of a form present in the graph; an identifier naming no form of
\* the graph contributes nothing.
C9_BucketsHoldGraphForms ==
  Returned("useDataSources") =>
    \A source \in Range(result.value.directDependencies)
                   \cup Range(result.value.transitiveDependencies) :
      /\ source.type = "form"
      /\ GraphHas(formGraph, source.id)
      /\ source = FormDataSource(source.id, GraphGet(formGraph, source.id).name,
                                 GraphGet(formGraph, source.id))

\* C10: with a null target all three buckets are empty, whatever the graph
\* and the global snapshot hold.
C10_NullTargetIsEmpty ==
  (Returned("useDataSources") /\ targetFormId = Null) =>
    /\ result.value.directDependencies = <<>>
    /\ result.value.transitiveDependencies = <<>>
    /\ result.value.globalSources = <<>>

C10_Witness ==
  /\ Returned("useDataSources")
  /\ targetFormId = Null
  /\ Len(formGraph) = 3
  /\ globalData # NullData
  /\ globalData.actionProperties # <<>>

\* C11: for a non-null target and a supplied snapshot the global bucket is
\* exactly the action-properties source followed by the organization-
\* properties source, whatever the graph holds.
C11_GlobalBucketActionThenOrg ==
  (Returned("useDataSources") /\ targetFormId # Null /\ globalData # NullData) =>
    result.value.globalSources =
      <<GlobalDataSource(globalData), OrganizationDataSource(globalData)>>

IdsAndTypes(sources) ==
  [i \in 1..Len(sources) |-> [id |-> sources[i].id, type |-> sources[i].type]]

\* C13: for a non-null target the direct and the transitive bucket hold the
\* same identifiers and categories in the same order with a snapshot as
\* without one.
C13_SnapshotOnlyAffectsGlobalBucket ==
  (Returned("useDataSources") /\ targetFormId # Null) =>
    LET without == useDataSources(targetFormId, formGraph, NullData)
    IN /\ IdsAndTypes(result.value.directDependencies) =
            IdsAndTypes(without.directDependencies)
       /\ IdsAndTypes(result.value.transitiveDependencies) =
            IdsAndTypes(without.transitiveDependencies)

RegistryIds == {"A", "B", "C", GlobalActionId}

\* the positions of the register calls made under id since the last clear
CallsFor(id) == {i \in 1..Len(registered) : registered[i].id = id}

FirstCall(id) == CHOOSE i \in CallsFor(id) : \A j \in CallsFor(id) : i <= j

LastCall(id) == CHOOSE i \in CallsFor(id) : \A j \in CallsFor(id) : j <= i

\* C16: get(id) is the source of the latest register call made under id
\* since the last clear, and is undefined when there was no such call.
C16_GetLastWriteWins ==
  \A id \in RegistryIds :
    IF CallsFor(id) = {} THEN ~registryHas(registrySources, id)
    ELSE /\ registryHas(registrySources, id)
         /\ get(registrySources, id) = registered[LastCall(id)]

C16_Witness ==
  /\ result.op = "register"
  /\ \E id \in RegistryIds :
       /\ Cardinality(CallsFor(id)) >= 2
       /\ registered[FirstCall(id)] # registered[LastCall(id)]
       /\ registered[FirstCall(id)].type # registered[LastCall(id)].type
  /\ \E id \in RegistryIds : CallsFor(id) = {}

\* C17: whenever x precedes y in getAll(), the register call that stored x
\* came before the register call that stored y, overwrites included;
\* getByType(tag) holds the sources of getAll() of that category, in the
\* order of getAll().
C17_GetAllInStoringCallOrder ==
  LET all == getAll(registrySources)
      Position(source) == CHOOSE i \in 1..Len(all) : all[i] = source
  IN /\ \A i, j \in 1..Len(all) :
          i < j => LastCall(all[i].id) < LastCall(all[j].id)
     /\ \A type \in {"form", "global", "custom"} :
          LET typed == getByType(registrySources, type)
          IN /\ Range(typed) = {source \in Range(all) : source.type = type}
             /\ \A i, j \in 1..Len(typed) :
                  i < j => Position(typed[i]) < Position(typed[j])

\* C18: getAll() holds exactly one source for each identifier registered
\* since the last clear, and is empty on a fresh registry and right after
\* clear().
C18_OneSourcePerIdentifier ==
  LET all == getAll(registrySources)
  IN /\ SourceIds(all) = {registered[i].id : i \in 1..Len(registered)}
     /\ \A i, j \in 1..Len(all) : i # j => all[i].id # all[j].id
     /\ result.op \in {"none", "clear"} => all = <<>>

C18_Witness ==
  /\ result.op = "register"
  /\ Len(registered) = 3
  /\ Len(getAll(registrySources)) = 1

\* str is before, a dot, and after
IsDotted(str, before, after) ==
  /\ Len(str) = Len(before) + 1 + Len(after)
  /\ \A i \in 1..Len(before) : str[i] = before[i]
  /\ str[Len(before) + 1] = "."
  /\ \A i \in 1..Len(after) : str[Len(before) + 1 + i] = after[i]

\* C19: getFields of a form source returns one DataField per field of the
\* form, in the form's order, nothing filtered and nothing merged: the i-th
\* carries the i-th field's id, label and type, and its path is the source's
\* display name, a dot, and the field's label.
C19_FormFieldsOneToOne ==
  (result.op = "getFields" /\ fieldSource.type = "form") =>
    LET fields == fieldSource.form.fields
    IN /\ Len(result.value) = Len(fields)
       /\ \A i \in 1..Len(fields) :
            /\ result.value[i].id = fields[i].id
            /\ result.value[i].label = fields[i].label
            /\ result.value[i].type = fields[i].type
            /\ IsDotted(result.value[i].path, fieldSource.name, fields[i].label)

C19_Witness ==
  /\ result.op = "getFields"
  /\ fieldSource.type = "form"
  /\ fieldSource.name # fieldSource.form.name
  /\ fieldSource.name # <<>>
  /\ Len(result.value) = 2
  /\ result.value[1] = result.value[2]

\* the Title-Case rendering, position by position: an underscore becomes a
\* space, a letter that starts the name or follows an underscore becomes its
\* capital, every other character stays
TitleCase(prop) ==
  [i \in 1..Len(prop) |->
     IF prop[i] = "_" THEN " "
     ELSE IF (i = 1 \/ prop[i - 1] = "_") /\ prop[i] \in DOMAIN UpperOf
          THEN UpperOf[prop[i]]
          ELSE prop[i]]

GroupProps(source) ==
  IF source.id = GlobalActionId THEN source.globalData.actionProperties
  ELSE source.globalData.clientOrgProperties

GroupPrefix(source) ==
  IF source.id = GlobalActionId THEN <<"A", "c", "t", "i", "o", "n">>
  ELSE <<"c", "l", "i", "e", "n", "t", "O", "r", "g">>

\* C20: getFields of a global source returns one DataField per property
\* name of its group, in list order: the id is the name, the type is text,
\* the label is the Title-Case rendering of the name and the path is the
\* group's prefix, a dot, and the label; in the action group created_at
\* gives the label Created At and the path Action.Created At.
C20_GlobalFieldsTitleCase ==
  (result.op = "getFields" /\ fieldSource.type = "global") =>
    LET props == GroupProps(fieldSource)
    IN /\ Len(result.value) = Len(props)
       /\ \A i \in 1..Len(props) :
            /\ result.value[i].id = props[i]
            /\ result.value[i].type = "text"
            /\ result.value[i].label = TitleCase(props[i])
            /\ IsDotted(result.value[i].path, GroupPrefix(fieldSource),
                        TitleCase(props[i]))
            /\ (props[i] = CreatedAt /\ fieldSource.id = GlobalActionId) =>
                 /\ result.value[i].label =
                      <<"C", "r", "e", "a", "t", "e", "d", " ", "A", "t">>
                 /\ result.value[i].path =
                      <<"A", "c", "t", "i", "o", "n", ".",
                        "C", "r", "e", "a", "t", "e", "d", " ", "A", "t">>

C20_Witness ==
  /\ result.op = "getFields"
  /\ fieldSource.id = GlobalActionId
  /\ Len(result.value) = 2
  /\ result.value[1].id = <<"a", "_", "a">>
  /\ result.value[2].id = CreatedAt
  /\ result.value[2].label # result.value[2].id

SameKey(m, formId, fieldId) == m.targetFormId = formId /\ m.targetFieldId = fieldId

\* the position of x in a list that holds it once
PositionIn(list, x) == CHOOSE i \in 1..Len(list) : list[i] = x

\* after is what is left of before when the mappings of Removed are taken
\* out: the others are all there, unchanged and in the same relative order
IsRemainder(after, before, Removed(_)) ==
  /\ Range(after) = {m \in Range(before) : ~Removed(m)}
  /\ Len(after) = Cardinality({i \in 1..Len(before) : ~Removed(before[i])})
  /\ \A i, j \in 1..Len(after) :
       i < j => PositionIn(before, after[i]) < PositionIn(before, after[j])

\* C21: a setMapping(m) step leaves m in the list and no other mapping with
\* m's key, keeps every mapping with another key unchanged and in order, and
\* getMapping on m's key returns m.
C21_SetMappingReplaces ==
  [][result'.op = "setMapping" =>
       LET m == result'.mapping
           Keyed(x) == SameKey(x, m.targetFormId, m.targetFieldId)
       IN /\ m \in Range(mappings')
          /\ Cardinality({i \in 1..Len(mappings') : Keyed(mappings'[i])}) = 1
          /\ IsRemainder(SelectSeq(mappings', LAMBDA x : x # m), mappings, Keyed)
          /\ hasMapping(mappings', m.targetFormId, m.targetFieldId)
          /\ getMapping(mappings', m.targetFormId, m.targetFieldId) = m]_vars

\* a list of three in which the mapping just set took the place of another
\* mapping of the same field, still to be seen in the stored copy
C21_Witness ==
  /\ result.op = "setMapping"
  /\ storePc = "effect"
  /\ Len(mappings) = 3
  /\ localStorage.kind = "json"
  /\ Len(localStorage.items) = 3
  /\ \E i \in 1..3 :
       LET old == parseObject(localStorage.items[i])
       IN /\ SameKey(old, result.mapping.targetFormId, result.mapping.targetFieldId)
          /\ old # result.mapping
          /\ i < 3

\* C22: a clearMapping(formId, fieldId) step removes exactly the mappings
\* with that key and a clearAllMappingsForForm(formId) step exactly the
\* mappings of that form; the others stay, unchanged and in order, and the
\* list is the same when nothing matches.
C22_ClearRemovesExactly ==
  [][/\ result'.op = "clearMapping" =>
          LET Hit(m) == SameKey(m, result'.formId, result'.fieldId)
          IN /\ IsRemainder(mappings', mappings, Hit)
             /\ (\A m \in Range(mappings) : ~Hit(m)) => mappings' = mappings
     /\ result'.op = "clearAllMappingsForForm" =>
          LET Hit(m) == m.targetFormId = result'.formId
          IN /\ IsRemainder(mappings', mappings, Hit)
             /\ (\A m \in Range(mappings) : ~Hit(m)) => mappings' = mappings]_vars

C22_Witness ==
  /\ result.op = "clearMapping"
  /\ result.fieldId = "f1"
  /\ storePc = "effect"
  /\ Len(mappings) = 2
  /\ mappings[1].targetFieldId = "f1"
  /\ localStorage.kind = "json"
  /\ Len(localStorage.items) = 3
  /\ \E i \in 1..3 :
       SameKey(parseObject(localStorage.items[i]), result.formId, result.fieldId)

StoreChanges ==
  {"mount", "setMapping", "clearMapping", "clearAllMappingsForForm", "clearAllMappings"}

\* C23: the persist effect is due after mount and after every change of the
\* list; once it has run and the write succeeded, the stored item is the
\* serialization of the list in memory, and a hook mounted on it starts
\* with that list.
C23_PersistedIsCurrent ==
  /\ result.op \in StoreChanges => storePc = "effect"
  /\ (result.op = "persist" /\ result.wrote) =>
       /\ localStorage = JSONstringify(mappings)
       /\ loadMappings(localStorage, FALSE).mappings = mappings

C23_Witness ==
  /\ result.op = "persist"
  /\ result.wrote
  /\ result.after.op = "clearMapping"
  /\ Len(mappings) = 2
  /\ \E i \in 1..2 : mappings[i].sourceFormId = Undefined

\* C24: no exception leaves the initializer or the persist effect; when the
\* write throws after setMapping the new mapping is in the list in memory;
\* when the item is missing, empty or no JSON, or reading it throws, the
\* hook starts with the empty list.
C24_StorageFaultsContained ==
  /\ result.op \in {"mount", "persist"} => ~result.escaped
  /\ (result.op = "persist" /\ ~result.wrote /\ result.after.op = "setMapping") =>
       result.after.mapping \in Range(mappings)
  /\ (result.op = "mount"
      /\ (result.getItemThrew \/ localStorage.kind \in {"null", "empty", "corrupt"})) =>
       mappings = <<>>

C24_Witness ==
  /\ result.op = "persist"
  /\ ~result.wrote
  /\ result.after.op = "setMapping"
  /\ localStorage = CorruptItem
  /\ Len(mappings) = 2

\* C29: the list never holds two mappings with the same
\* (targetFormId, targetFieldId).
C29_OneMappingPerField == ~HasDuplicateKeys(mappings)

C29_Witness ==
  /\ result.op = "setMapping"
  /\ Len(mappings) = Cardinality(MappingKeys)
  /\ localStorage.kind = "json"
  /\ JSONparse(localStorage).value # mappings
  /\ Len(localStorage.items) = Cardinality(MappingKeys)

\* the calls createMapping makes for a selection: onSelectField with the
\* mapping of that selection, then onClose
IsMappingCalls(calls, targetField, selection) ==
  /\ Len(calls) = 2
  /\ calls[1].fn = "onSelectField"
  /\ calls[1].mapping.targetFieldId = targetField.id
  /\ calls[1].mapping.sourceFieldId = selection.field.id
  /\ calls[1].mapping.sourcePath = selection.field.path
  /\ calls[1].mapping.sourceType = selection.source.type
  /\ selection.source.type = "form" => calls[1].mapping.sourceFormId = selection.source.id
  /\ calls[2].fn = "onClose"

FirstIndex(xs, x) ==
  CHOOSE i \in 1..Len(xs) : xs[i] = x /\ \A j \in 1..(i - 1) : xs[j] # x

\* the identifiers of the sources of a bucket occur in xs, in the order of
\* their first occurrences there
InOrderOf(bucket, xs) ==
  /\ \A i \in 1..Len(bucket) : bucket[i].id \in Range(xs)
  /\ \A i, j \in 1..Len(bucket) :
       i < j => FirstIndex(xs, bucket[i].id) < FirstIndex(xs, bucket[j].id)

DependencyList(id, g) == IF GraphHas(g, id) THEN GraphGet(g, id).dependencies ELSE <<>>

\* the identifiers discovered from target, in discovery order: the target is
\* expanded first, then the discovered identifiers in the order of their
\* discovery; expanding an identifier discovers those of its dependency list
\* that were not discovered before, in list order
RECURSIVE Discover(_, _, _, _)
Discover(found, i, target, g) ==
  LET expand == <<target>> \o SelectSeq(found, LAMBDA x : x # target)
      list == IF i <= Len(expand) THEN DependencyList(expand[i], g) ELSE <<>>
      fresh == {k \in 1..Len(list) :
                  list[k] \notin Range(found) /\ \A j \in 1..(k - 1) : list[j] # list[k]}
      NextFresh(after) == CHOOSE k \in fresh : k > after /\ \A m \in fresh : m > after => k <= m
      RECURSIVE FreshFrom(_)
      FreshFrom(after) ==
        IF \A k \in fresh : k <= after THEN <<>>
        ELSE <<list[NextFresh(after)]>> \o FreshFrom(NextFresh(after))
  IN IF i > Len(expand) THEN found
     ELSE Discover(found \o FreshFrom(0), i + 1, target, g)

\* C26: the buckets keep the iteration order of the identifiers: the direct
\* bucket lists its sources in the order of the first occurrences of their
\* identifiers in the target's dependency list, the transitive bucket in the
\* order in which the breadth-first traversal discovered their identifiers;
\* identifiers that resolve to nothing leave no gap and move nothing.
C26_BucketsKeepIterationOrder ==
  (result # NoResult /\ result.op = "useDataSources" /\ targetFormId # Null) =>
    /\ InOrderOf(result.value.directDependencies,
                 DependencyList(targetFormId, formGraph))
    /\ InOrderOf(result.value.transitiveDependencies,
                 Discover(<<>>, 1, targetFormId, formGraph))

\* a dependency list of three identifiers whose second resolves to nothing:
\* the direct bucket holds the other two, against the order of the registry
C26_Witness ==
  /\ result # NoResult
  /\ result.op = "useDataSources"
  /\ targetFormId = "A"
  /\ globalData = NullData
  /\ ObjectKeys(formGraph) = <<"A", "B", "C">>
  /\ DependencyList("A", formGraph) = <<"C", GlobalActionId, "B">>
  /\ [i \in 1..2 |-> result.value.directDependencies[i].id] = <<"C", "B">>

NoDuplicates(xs) == \A i, j \in 1..Len(xs) : i # j => xs[i] # xs[j]

RECURSIVE TotalDependencies(_)
TotalDependencies(g) ==
  IF g = <<>> THEN 0 ELSE Len(Head(g).dependencies) + TotalDependencies(Tail(g))

\* C27: while getDependencies runs no identifier has its dependency list
\* enumerated twice, the number of enumerations is at most the number of
\* forms of the graph and the number of queue pushes is at most 1 plus the
\* total length of the dependency lists of the graph; while
\* hasCircularDependencies runs hasCycle is entered at most once per
\* identifier.
C27_VisitsBounded ==
  /\ NoDuplicates(bfs.expanded)
  /\ Len(bfs.expanded) <= Len(formGraph)
  /\ bfs.pushes <= 1 + TotalDependencies(formGraph)
  /\ NoDuplicates(dfs.entered)

\* a traversal that ended with three forms expanded and both bounds attained,
\* one queue element having been skipped as visited
C27_Witness ==
  /\ pc = "getDependencies"
  /\ bfs.queue = <<>>
  /\ Len(formGraph) = 3
  /\ Len(bfs.expanded) = 3
  /\ bfs.pushes = 4
  /\ TotalDependencies(formGraph) = 3

\* the keys of the graph that getDependencies lists among their own dependencies
OwnDependency(g) ==
  {i \in 1..Len(g) : g[i].id \in Range(getDependencies(g[i].id, g))}

C30_LastStartedLoadWins ==
  loader.overlapped =>
    /\ (loader.inflight = {} /\ loader.outcome[loader.started].state = "fulfilled")
         => LET data == loader.outcome[loader.started].data
            IN /\ loader.forms = data.forms
               /\ loader.formGraph = buildGraph(<<>>, data.forms)
               /\ loader.globalData = data.globalData
    /\ ~loader.loading => loader.inflight = {}

====
